---------------------------- MODULE Spec2Model ----------------------------
(***************************************************************************)
(* State machine of the CheckForm component                               *)
(* (src/frontend/src/CheckForm.tsx): the React state of one mounted form, *)
(* the user events its markup accepts, the vehicle load started at mount  *)
(* and the createCheck requests handleSubmit dispatches.                  *)
(*                                                                         *)
(* Texts the user types are sequences of one-character strings, so that   *)
(* trim() and parseFloat() are computed and not assumed.  A handler runs  *)
(* to completion: the part of handleSubmit before the await is one step,  *)
(* the part after it (try remainder / catch / finally) is one step per    *)
(* settlement of the awaited request.                                     *)
(***************************************************************************)
EXTENDS Integers, Sequences, FiniteSets, TLC

VARIABLES
    vehicles,          \* useState<Vehicle[]>([])             line 20
    selectedVehicle,   \* useState("")                        line 21
    odometerKm,        \* useState(""), text of the input     line 22
    note,              \* useState(""), text of the textarea  line 23
    items,             \* useState<CheckItem[]>(...)          line 24
    loading,           \* useState(false)                     line 27
    error,             \* useState<string | null>(null)       line 28
    validationErrors,  \* useState<string[]>([])              line 29
    vehiclesLoad,      \* the promise of api.getVehicles()    line 32
    requests,          \* createCheck calls awaited at line 48, not yet settled
    toasts,            \* the calls made to props.showToast, in order
    onSuccessCalls,    \* the number of calls made to props.onSuccess
    submitted,         \* the number of handleSubmit runs so far
    edits,             \* the number of user edits so far
    mounted            \* the component is mounted (rendered, receiving events)

vars == <<vehicles, selectedVehicle, odometerKm, note, items, loading, error,
          validationErrors, vehiclesLoad, requests, toasts, onSuccessCalls,
          submitted, edits, mounted>>

fields == <<selectedVehicle, odometerKm, note, items>>

-----------------------------------------------------------------------------
(* Bounds of the exploration *)

MaxSubmits == 2
MaxEdits == 4

-----------------------------------------------------------------------------
(* Program constants *)

CHECK_ITEMS == <<"TYRES", "BRAKES", "LIGHTS", "OIL", "COOLANT">>

Statuses == {"OK", "FAIL"}

Null == "<null>"

SuccessMessage == "Inspection submitted successfully."

GenericMessage == "Failed to submit check. Please try again."

ValidationFallback == "Validation failed."

OdometerMin == 1

-----------------------------------------------------------------------------
(* The environment: what the user can type and what the backend answers *)

WhiteSpace == {" ", "\t", "\n", "\r"}

NoteTexts ==
    { <<>>,
      <<" ", " ", " ">>,
      <<"h", "i">>,
      <<" ", " ", "h", "i", " ", " ">>,
      <<"\t", "h", " ", "i", "\n">> }

OdometerTexts == { <<>>, <<"0">>, <<"1", "2">> }

VehicleLists ==
    { <<>>,
      <<[id |-> "v1"], [id |-> "v2"]>> }

D1 == [field |-> "odometerKm", reason |-> "must be positive"]
D2 == [field |-> "vehicleId", reason |-> "is required"]

DetailLists == { <<>>, <<D1>>, <<D2, D1>> }

\* Values createCheck can reject with: an Error without an `error` property
\* (network-level failure), a body without details, a body with details.
Rejections ==
    { [name |-> "TypeError"], [error |-> [message |-> "Internal error"]] }
    \cup { [error |-> [details |-> ds]] : ds \in DetailLists }

\* What a collaborator called in the try block can throw.
ThrownError == [name |-> "Error"]

Throwers == {"none", "showToast", "onSuccess"}


-----------------------------------------------------------------------------
(* Pure helpers, computed as the code computes them *)

RECURSIVE TrimStart(_)
TrimStart(s) ==
    IF s = <<>> THEN s
    ELSE IF Head(s) \in WhiteSpace THEN TrimStart(Tail(s)) ELSE s

RECURSIVE TrimEnd(_)
TrimEnd(s) ==
    IF s = <<>> THEN s
    ELSE IF s[Len(s)] \in WhiteSpace THEN TrimEnd(SubSeq(s, 1, Len(s) - 1)) ELSE s

\* A trim that strips the leading white space only.
TrimStartOnly(s) == TrimStart(s)

\* String.prototype.trim, as used on `note` at line 52
Trim(s) == TrimEnd(TrimStart(s))

DigitValue ==
    [c \in {"0", "1", "2", "3", "4", "5", "6", "7", "8", "9"} |->
        CASE c = "0" -> 0 [] c = "1" -> 1 [] c = "2" -> 2 [] c = "3" -> 3
          [] c = "4" -> 4 [] c = "5" -> 5 [] c = "6" -> 6 [] c = "7" -> 7
          [] c = "8" -> 8 [] c = "9" -> 9]

NaN == [nan |-> TRUE, value |-> 0]

RECURSIVE DigitsPrefix(_)
DigitsPrefix(s) ==
    IF s = <<>> \/ Head(s) \notin DOMAIN DigitValue THEN <<>>
    ELSE <<Head(s)>> \o DigitsPrefix(Tail(s))

RECURSIVE DigitsToNumber(_, _)
DigitsToNumber(ds, acc) ==
    IF ds = <<>> THEN acc
    ELSE DigitsToNumber(Tail(ds), 10 * acc + DigitValue[Head(ds)])

\* parseFloat on the odometer text (line 50): leading white space skipped, an
\* optional sign, the longest run of decimal digits; NaN when there is none.
\* (The texts explored hold no fraction or exponent part.)
ParseFloat(text) ==
    LET s == TrimStart(text)
        neg == s # <<>> /\ Head(s) = "-"
        rest == IF s # <<>> /\ Head(s) \in {"-", "+"} THEN Tail(s) ELSE s
        ds == DigitsPrefix(rest)
    IN  IF ds = <<>> THEN NaN
        ELSE [nan |-> FALSE,
              value |-> IF neg THEN 0 - DigitsToNumber(ds, 0) ELSE DigitsToNumber(ds, 0)]

\* CHECK_ITEMS.map((key) => ({ key, status: "OK" }))   lines 25 and 59
InitialItems == [i \in 1..Len(CHECK_ITEMS) |-> [key |-> CHECK_ITEMS[i], status |-> "OK"]]

\* An update that writes the status into every entry.
SetEveryItemStatus(prev, key, status) ==
    [i \in 1..Len(prev) |-> [prev[i] EXCEPT !.status = status]]

\* An update that appends the new status as one more entry.
AppendItemStatus(prev, key, status) == Append(prev, [key |-> key, status |-> status])

\* prev.map((item) => (item.key === key ? { ...item, status } : item))  line 37
MapItemStatus(prev, key, status) ==
    [i \in 1..Len(prev) |->
        IF prev[i].key = key THEN [prev[i] EXCEPT !.status = status] ELSE prev[i]]

\* A payload built from the default checklist and the first vehicle.
BuildPayloadFromDefaults(sv, odo, its, nt) ==
    IF Trim(nt) # <<>>
    THEN [vehicleId |-> "v1", odometerKm |-> ParseFloat(odo), items |-> InitialItems,
          note |-> Trim(nt)]
    ELSE [vehicleId |-> "v1", odometerKm |-> ParseFloat(odo), items |-> InitialItems]

\* The argument of api.createCheck, lines 48-53: the note property exists only
\* when note.trim() is a non-empty (truthy) string.
BuildPayload(sv, odo, its, nt) ==
    IF Trim(nt) # <<>>
    THEN [vehicleId |-> sv, odometerKm |-> ParseFloat(odo), items |-> its,
          note |-> Trim(nt)]
    ELSE [vehicleId |-> sv, odometerKm |-> ParseFloat(odo), items |-> its]

\* errorResponse.error?.details as a condition (line 64): true when the
\* property exists; an array is truthy whatever its length.
HasDetails(err) ==
    /\ "error" \in DOMAIN err
    /\ "details" \in DOMAIN err.error

\* A format without the separator.
FormatDetailNoSeparator(d) == d.field \o d.reason

\* `${d.field}: ${d.reason}`   line 66
FormatDetail(d) == d.field \o ": " \o d.reason

\* errorResponse.error.details.map(...)   lines 65-67
MapDetails(ds) == [i \in 1..Len(ds) |-> FormatDetail(ds[i])]

\* details[0] ?? "Validation failed."   line 69
FirstOrFallback(details) ==
    IF Len(details) >= 1 THEN details[1] ELSE ValidationFallback

\* A catch block whose generic branch shows the toast but records no message.
CatchBlockNoBanner(err, curError, curValidationErrors) ==
    IF HasDetails(err)
    THEN [error |-> curError,
          validationErrors |-> MapDetails(err.error.details),
          toast |-> [message |-> FirstOrFallback(MapDetails(err.error.details)),
                     type |-> "error"]]
    ELSE [error |-> curError,
          validationErrors |-> curValidationErrors,
          toast |-> [message |-> GenericMessage, type |-> "error"]]

\* The catch block, lines 62-74: the state it leaves in error and
\* validationErrors and the toast it shows, for the value caught.
CatchBlock(err, curError, curValidationErrors) ==
    IF HasDetails(err)
    THEN [error |-> curError,
          validationErrors |-> MapDetails(err.error.details),
          toast |-> [message |-> FirstOrFallback(MapDetails(err.error.details)),
                     type |-> "error"]]
    ELSE [error |-> GenericMessage,
          validationErrors |-> curValidationErrors,
          toast |-> [message |-> GenericMessage, type |-> "error"]]

\* A submit button that is never disabled.
SubmitNeverDisabled == FALSE

\* <button type="submit" disabled={loading}>   line 173
SubmitDisabled == loading

\* A form whose controls carry no constraint (noValidate).
FormAlwaysValid == TRUE

\* Constraint validation of the form controls before the submit event fires:
\* `required` on the select (line 102), `required` and min={1} on the number
\* input (lines 120-123).
FormValid ==
    /\ selectedVehicle # ""
    /\ odometerKm # <<>>
    /\ ~ParseFloat(odometerKm).nan
    /\ ParseFloat(odometerKm).value >= OdometerMin

\* The options of the select, lines 103-108
VehicleOptions == {""} \cup { vehicles[i].id : i \in 1..Len(vehicles) }

-----------------------------------------------------------------------------
(* Initial state: the component as mounted, the vehicle load started *)

Init ==
    /\ vehicles = <<>>
    /\ selectedVehicle = ""
    /\ odometerKm = <<>>
    /\ note = <<>>
    /\ items = InitialItems
    /\ loading = FALSE
    /\ error = Null
    /\ validationErrors = <<>>
    /\ vehiclesLoad = "pending"
    /\ requests = {}
    /\ toasts = <<>>
    /\ onSuccessCalls = 0
    /\ submitted = 0
    /\ edits = 0
    /\ mounted = TRUE

-----------------------------------------------------------------------------
(* The vehicle load of the mount effect, lines 31-33 *)

GetVehiclesResolved(list) ==
    /\ vehiclesLoad = "pending"
    /\ vehicles' = list
    /\ vehiclesLoad' = "fulfilled"
    /\ UNCHANGED <<selectedVehicle, odometerKm, note, items, loading, error,
                   validationErrors, requests, toasts, onSuccessCalls,
                   submitted, edits, mounted>>

GetVehiclesRejected ==
    /\ vehiclesLoad = "pending"
    /\ vehiclesLoad' = "rejected"
    /\ UNCHANGED <<vehicles, selectedVehicle, odometerKm, note, items, loading,
                   error, validationErrors, requests, toasts, onSuccessCalls,
                   submitted, edits, mounted>>

-----------------------------------------------------------------------------
(* User edits; a change event carries a value other than the current one *)

SetSelectedVehicle(v) ==
    /\ mounted
    /\ edits < MaxEdits
    /\ v \in VehicleOptions
    /\ v # selectedVehicle
    /\ selectedVehicle' = v
    /\ edits' = edits + 1
    /\ UNCHANGED <<vehicles, odometerKm, note, items, loading, error,
                   validationErrors, vehiclesLoad, requests, toasts,
                   onSuccessCalls, submitted, mounted>>

SetOdometerKm(text) ==
    /\ mounted
    /\ edits < MaxEdits
    /\ text # odometerKm
    /\ odometerKm' = text
    /\ edits' = edits + 1
    /\ UNCHANGED <<vehicles, selectedVehicle, note, items, loading, error,
                   validationErrors, vehiclesLoad, requests, toasts,
                   onSuccessCalls, submitted, mounted>>

SetNote(text) ==
    /\ mounted
    /\ edits < MaxEdits
    /\ text # note
    /\ note' = text
    /\ edits' = edits + 1
    /\ UNCHANGED <<vehicles, selectedVehicle, odometerKm, items, loading, error,
                   validationErrors, vehiclesLoad, requests, toasts,
                   onSuccessCalls, submitted, mounted>>

\* A radio of a rendered item becomes checked (lines 130-156).
HandleItemStatusChange(key, status) ==
    /\ mounted
    /\ edits < MaxEdits
    /\ \E i \in 1..Len(items) : items[i].key = key /\ items[i].status # status
    /\ items' = MapItemStatus(items, key, status)
    /\ edits' = edits + 1
    /\ UNCHANGED <<vehicles, selectedVehicle, odometerKm, note, loading, error,
                   validationErrors, vehiclesLoad, requests, toasts,
                   onSuccessCalls, submitted, mounted>>

-----------------------------------------------------------------------------
(* Submission *)

\* A handler that dispatches without setError(null).
HandleSubmitKeepsError ==
    /\ validationErrors' = <<>>
    /\ loading' = TRUE
    /\ requests' = requests \cup
          { [id |-> submitted + 1,
             payload |-> BuildPayload(selectedVehicle, odometerKm, items, note),
             closure |-> [selectedVehicle |-> selectedVehicle,
                          odometerKm |-> odometerKm,
                          note |-> note,
                          items |-> items],
             editsBefore |-> edits] }
    /\ submitted' = submitted + 1
    /\ UNCHANGED <<vehicles, selectedVehicle, odometerKm, note, items, error,
                   vehiclesLoad, toasts, onSuccessCalls, edits, mounted>>

\* A handler that dispatches without setValidationErrors([]).
HandleSubmitKeepsValidationErrors ==
    /\ error' = Null
    /\ loading' = TRUE
    /\ requests' = requests \cup
          { [id |-> submitted + 1,
             payload |-> BuildPayload(selectedVehicle, odometerKm, items, note),
             closure |-> [selectedVehicle |-> selectedVehicle,
                          odometerKm |-> odometerKm,
                          note |-> note,
                          items |-> items],
             editsBefore |-> edits] }
    /\ submitted' = submitted + 1
    /\ UNCHANGED <<vehicles, selectedVehicle, odometerKm, note, items,
                   validationErrors, vehiclesLoad, toasts, onSuccessCalls, edits, mounted>>

\* handleSubmit up to the await, lines 41-53.  The request keeps the values
\* the handler's closure read (selectedVehicle, odometerKm, note, items) and
\* the number of user edits made before it was dispatched.
HandleSubmit ==
    /\ error' = Null
    /\ validationErrors' = <<>>
    /\ loading' = TRUE
    /\ requests' = requests \cup
          { [id |-> submitted + 1,
             payload |-> BuildPayload(selectedVehicle, odometerKm, items, note),
             closure |-> [selectedVehicle |-> selectedVehicle,
                          odometerKm |-> odometerKm,
                          note |-> note,
                          items |-> items],
             editsBefore |-> edits] }
    /\ submitted' = submitted + 1
    /\ UNCHANGED <<vehicles, selectedVehicle, odometerKm, note, items,
                   vehiclesLoad, toasts, onSuccessCalls, edits, mounted>>

\* The submit event of the form (line 81), fired by the submit button when it
\* is enabled and the controls are valid.
Submit ==
    /\ mounted
    /\ submitted < MaxSubmits
    /\ ~SubmitDisabled
    /\ FormValid
    /\ HandleSubmit

\* A reset that forgets the checklist and the note.
ResetFieldsPartial ==
    [selectedVehicle |-> "", odometerKm |-> <<>>, note |-> note, items |-> items]

\* The values the success branch writes, lines 56-59
ResetFields ==
    [selectedVehicle |-> "", odometerKm |-> <<>>, note |-> <<>>,
     items |-> InitialItems]

\* A handler without the finally block: loading keeps its value.
FinallyKeepsLoading == loading

\* loading after the finally block, lines 75-77
FinallyLoading == FALSE

\* The request is accepted: lines 55-61, then finally.  `thrower` is the
\* collaborator that throws inside the try block, if any; the exception is
\* caught at line 62 like a rejection of the request.
CreateCheckResolved(r, thrower) ==
    /\ r \in requests
    /\ requests' = requests \ {r}
    /\ selectedVehicle' = ResetFields.selectedVehicle
    /\ odometerKm' = ResetFields.odometerKm
    /\ note' = ResetFields.note
    /\ items' = ResetFields.items
    /\ onSuccessCalls' = IF thrower = "showToast" THEN onSuccessCalls
                         ELSE onSuccessCalls + 1
    /\ LET success == [message |-> SuccessMessage, type |-> "success"]
           caught == CatchBlock(ThrownError, error, validationErrors)
       IN  IF thrower = "none"
           THEN /\ toasts' = Append(toasts, success)
                /\ UNCHANGED <<error, validationErrors>>
           ELSE /\ toasts' = toasts \o <<success, caught.toast>>
                /\ error' = caught.error
                /\ validationErrors' = caught.validationErrors
    /\ loading' = FinallyLoading
    /\ UNCHANGED <<vehicles, vehiclesLoad, submitted, edits, mounted>>

\* A failure path that clears the note and the odometer text.
CreateCheckRejectedClearing(r, err) ==
    /\ r \in requests
    /\ requests' = requests \ {r}
    /\ LET caught == CatchBlock(err, error, validationErrors)
       IN  /\ error' = caught.error
           /\ validationErrors' = caught.validationErrors
           /\ toasts' = Append(toasts, caught.toast)
    /\ loading' = FinallyLoading
    /\ note' = <<>>
    /\ odometerKm' = <<>>
    /\ UNCHANGED <<vehicles, selectedVehicle, items,
                   vehiclesLoad, onSuccessCalls, submitted, edits, mounted>>

\* A failure path that returns early once the component is unmounted.
CreateCheckRejectedIfMounted(r, err) ==
    /\ r \in requests
    /\ requests' = requests \ {r}
    /\ LET caught == CatchBlock(err, error, validationErrors)
       IN  IF mounted
           THEN /\ error' = caught.error
                /\ validationErrors' = caught.validationErrors
                /\ toasts' = Append(toasts, caught.toast)
                /\ loading' = FinallyLoading
           ELSE UNCHANGED <<error, validationErrors, toasts, loading>>
    /\ UNCHANGED <<vehicles, selectedVehicle, odometerKm, note, items,
                   vehiclesLoad, onSuccessCalls, submitted, edits, mounted>>

\* The request is rejected with err: catch (lines 62-74), then finally.
CreateCheckRejected(r, err) ==
    /\ r \in requests
    /\ requests' = requests \ {r}
    /\ LET caught == CatchBlock(err, error, validationErrors)
       IN  /\ error' = caught.error
           /\ validationErrors' = caught.validationErrors
           /\ toasts' = Append(toasts, caught.toast)
    /\ loading' = FinallyLoading
    /\ UNCHANGED <<vehicles, selectedVehicle, odometerKm, note, items,
                   vehiclesLoad, onSuccessCalls, submitted, edits, mounted>>

-----------------------------------------------------------------------------

Settle ==
    \E r \in requests :
        \/ \E thrower \in Throwers : CreateCheckResolved(r, thrower)
        \/ \E err \in Rejections : CreateCheckRejected(r, err)

Next ==
    \/ \E list \in VehicleLists : GetVehiclesResolved(list)
    \/ GetVehiclesRejected
    \/ \E v \in VehicleOptions : SetSelectedVehicle(v)
    \/ \E text \in OdometerTexts : SetOdometerKm(text)
    \/ \E text \in NoteTexts : SetNote(text)
    \/ \E i \in 1..Len(items), status \in Statuses :
          HandleItemStatusChange(items[i].key, status)
    \/ Submit
    \/ Settle

Spec == Init /\ [][Next]_vars

\* Every request the backend has received is eventually answered.
LiveSpec == Spec /\ WF_vars(Settle)

\* The parent stops rendering the form.  The component registers no cleanup
\* (the effect of lines 31-33 returns nothing, handleSubmit holds no abort
\* signal and tests no mounted flag): pending promises and their
\* continuations are left as they are and make the same calls later.
Unmount ==
    /\ mounted
    /\ mounted' = FALSE
    /\ UNCHANGED <<vehicles, selectedVehicle, odometerKm, note, items, loading,
                   error, validationErrors, vehiclesLoad, requests, toasts,
                   onSuccessCalls, submitted, edits>>

LifeNext == Next \/ Unmount

\* The form over its whole life, unmount included, requests being answered.
LifeSpec == Init /\ [][LifeNext]_vars /\ WF_vars(Settle)

-----------------------------------------------------------------------------
(* Vocabulary of the properties *)

\* The toasts shown by the step
NewToasts == SubSeq(toasts', Len(toasts) + 1, Len(toasts'))

\* The step handles the settlement of a request
SettleStep == \E r \in requests : requests' = requests \ {r}

FieldsAreInitial ==
    /\ selectedVehicle = ""
    /\ odometerKm = <<>>
    /\ note = <<>>
    /\ items = << [key |-> "TYRES", status |-> "OK"],
                  [key |-> "BRAKES", status |-> "OK"],
                  [key |-> "LIGHTS", status |-> "OK"],
                  [key |-> "OIL", status |-> "OK"],
                  [key |-> "COOLANT", status |-> "OK"] >>

-----------------------------------------------------------------------------
(* C1: at most one createCheck request is in flight at any time, whatever
   the interleaving of user events and settlements; while the form is
   Submitting no second request is dispatched. *)
AtMostOneRequestInFlight == Cardinality(requests) <= 1

\* The form is Submitting with valid fields and a request in flight: only the
\* disabled button stands between the user and a second request.
SecondSubmitBlocked ==
    /\ loading
    /\ Cardinality(requests) = 1
    /\ FormValid
    /\ submitted < MaxSubmits

(* C2: every settlement of a dispatched request applies the effects of
   exactly one of the three branches: Success (fields reset, one success
   toast, onSuccess called once, no error content), ValidationFailed (fields
   kept, the validation list set, one error toast carrying its first entry or
   the fallback, error null) or GenericFailed (fields kept, the generic
   message in error, one error toast with it, validation list empty);
   never none of them and never a mixture. *)
SuccessApplied ==
    /\ FieldsAreInitial'
    /\ NewToasts = << [message |-> "Inspection submitted successfully.",
                       type |-> "success"] >>
    /\ onSuccessCalls' = onSuccessCalls + 1
    /\ error' = Null
    /\ validationErrors' = <<>>

ValidationFailedApplied ==
    /\ UNCHANGED fields
    /\ UNCHANGED onSuccessCalls
    /\ error' = Null
    /\ NewToasts =
         << [message |-> IF validationErrors' # <<>> THEN validationErrors'[1]
                         ELSE "Validation failed.",
             type |-> "error"] >>

GenericFailedApplied ==
    /\ UNCHANGED fields
    /\ UNCHANGED onSuccessCalls
    /\ error' = "Failed to submit check. Please try again."
    /\ validationErrors' = <<>>
    /\ NewToasts = << [message |-> "Failed to submit check. Please try again.",
                       type |-> "error"] >>

ExactlyOneOutcome ==
    [][SettleStep =>
         \/ SuccessApplied /\ ~ValidationFailedApplied /\ ~GenericFailedApplied
         \/ ~SuccessApplied /\ ValidationFailedApplied /\ ~GenericFailedApplied
         \/ ~SuccessApplied /\ ~ValidationFailedApplied /\ GenericFailedApplied
      ]_vars

(* C3: loading is true exactly while a dispatched request has not settled,
   it is false once the outcome branch has run on every exit path, and,
   every request being eventually settled, a Submitting form always comes
   back to Idle with the submit button enabled. *)
LoadingUntilSettled ==
    /\ [](loading <=> requests # {})
    /\ [][SettleStep /\ requests' = {} => ~loading']_vars
    /\ (loading ~> (~loading /\ ~SubmitDisabled))

\* A submission has run and the form is Idle again with an error shown.
BackToIdleAfterFailure ==
    /\ submitted >= 1
    /\ ~loading
    /\ ~SubmitDisabled
    /\ requests = {}
    /\ (error # Null \/ validationErrors # <<>>)

(* C4: a submission whose request is rejected keeps the field values.  As
   first stated: after the failure branch selectedVehicle, odometerKm, note
   and the checklist equal the values they had when the submit was issued. *)
FailureRestoresPreSubmitFields ==
    [][\A r \in requests, err \in Rejections :
          CreateCheckRejected(r, err) =>
             /\ selectedVehicle' = r.closure.selectedVehicle
             /\ odometerKm' = r.closure.odometerKm
             /\ note' = r.closure.note
             /\ items' = r.closure.items
      ]_vars

(* C4, amended: the failure branch writes none of selectedVehicle,
   odometerKm, note and the checklist: after it they equal the values they
   had just before the rejection was handled, which are the values at the
   moment of the submit when no edit was made while the request was in
   flight; of the form state only error, validationErrors and loading may
   differ. *)
FailureKeepsCurrentFields ==
    [][\A r \in requests, err \in Rejections :
          CreateCheckRejected(r, err) =>
             /\ UNCHANGED <<selectedVehicle, odometerKm, note, items, vehicles>>
             /\ (edits = r.editsBefore =>
                   /\ selectedVehicle' = r.closure.selectedVehicle
                   /\ odometerKm' = r.closure.odometerKm
                   /\ note' = r.closure.note
                   /\ items' = r.closure.items)
      ]_vars

\* Only failures so far, the form is Idle and still holds what the user
\* entered, a failing item and a note included.
FieldsKeptAfterFailure ==
    /\ ~loading
    /\ requests = {}
    /\ Len(toasts) >= 1
    /\ \A i \in 1..Len(toasts) : toasts[i].type = "error"
    /\ selectedVehicle # ""
    /\ odometerKm # <<>>
    /\ note # <<>>
    /\ \E i \in 1..Len(items) : items[i].status = "FAIL"

(* C5: right after a request is accepted the checklist is the initial
   collection (TYRES, BRAKES, LIGHTS, OIL, COOLANT in that order, all OK) and
   selectedVehicle, odometerKm and note are empty, whatever they held at the
   submit or were edited to while the request was in flight. *)
ResetOnSuccess ==
    [][\A r \in requests, thrower \in Throwers :
          CreateCheckResolved(r, thrower) => FieldsAreInitial'
      ]_vars

\* The last thing shown is the success toast of an accepted submission made
\* after three edits or more, and the fields are back to their defaults.
FieldsResetAfterSuccess ==
    /\ ~loading
    /\ Len(toasts) >= 1
    /\ toasts[Len(toasts)].type = "success"
    /\ onSuccessCalls >= 1
    /\ edits >= 3
    /\ FieldsAreInitial

(* C6: a rejection is handled as ValidationFailed if and only if its error
   object carries a non-empty details list; otherwise (details absent, an
   empty list, an error of another shape) it is handled as GenericFailed:
   the generic message is recorded in error and validationErrors is empty. *)
NonEmptyDetails(err) ==
    /\ "error" \in DOMAIN err
    /\ "details" \in DOMAIN err.error
    /\ Len(err.error.details) >= 1

ClassifiedByNonEmptyDetails ==
    [][\A r \in requests, err \in Rejections :
          CreateCheckRejected(r, err) =>
             IF NonEmptyDetails(err)
             THEN validationErrors' # <<>> /\ error' = Null
             ELSE /\ error' = "Failed to submit check. Please try again."
                  /\ validationErrors' = <<>>
      ]_vars

(* C7: in every reachable state the checklist has exactly five entries, one
   per key TYRES, BRAKES, LIGHTS, OIL, COOLANT in that order, without
   duplicate or missing key, each with status OK or FAIL. *)
ChecklistClosure ==
    /\ Len(items) = 5
    /\ items[1].key = "TYRES"
    /\ items[2].key = "BRAKES"
    /\ items[3].key = "LIGHTS"
    /\ items[4].key = "OIL"
    /\ items[5].key = "COOLANT"
    /\ \A i \in 1..Len(items) : items[i].status \in {"OK", "FAIL"}
    /\ \A i, j \in 1..Len(items) : items[i].key = items[j].key => i = j

\* A status was set again after a submission had reset the checklist.
StatusSetAfterReset ==
    /\ \E i \in 1..Len(toasts) : toasts[i].type = "success"
    /\ \E i \in 1..Len(items) : items[i].status = "FAIL"

(* C8: the payload has a note field exactly when the note text holds a
   character that is not white space, and the field is then the text without
   its leading and trailing white space; a blank note is never sent as an
   empty string. *)
IsStripped(text, t) ==
    \E a, b \in 1..Len(text) :
        /\ a <= b
        /\ t = SubSeq(text, a, b)
        /\ text[a] \notin WhiteSpace
        /\ text[b] \notin WhiteSpace
        /\ \A k \in 1..Len(text) : (k < a \/ k > b) => text[k] \in WhiteSpace

NoteTrimmedInPayload ==
    \A r \in requests :
        /\ ("note" \in DOMAIN r.payload) <=>
              (\E k \in 1..Len(r.closure.note) : r.closure.note[k] \notin WhiteSpace)
        /\ ("note" \in DOMAIN r.payload) => IsStripped(r.closure.note, r.payload.note)

\* A request is in flight for a note padded with white space on both sides.
PaddedNoteSubmitted ==
    \E r \in requests :
        /\ r.closure.note = <<" ", " ", "h", "i", " ", " ">>
        /\ "note" \in DOMAIN r.payload
        /\ r.payload.note = <<"h", "i">>

(* C9: a rejection carrying details d1..dn leaves in validationErrors
   exactly the strings "field: reason" of d1..dn in that order, leaves error
   null and shows exactly one toast of kind error whose message is the first
   of these strings, or the fallback "Validation failed." when the list is
   empty. *)
ExpectedText(d) ==
    CASE d = [field |-> "odometerKm", reason |-> "must be positive"]
            -> "odometerKm: must be positive"
      [] d = [field |-> "vehicleId", reason |-> "is required"]
            -> "vehicleId: is required"

ValidationFailedEffects ==
    [][\A r \in requests, ds \in DetailLists :
          CreateCheckRejected(r, [error |-> [details |-> ds]]) =>
             /\ Len(validationErrors') = Len(ds)
             /\ \A i \in 1..Len(ds) : validationErrors'[i] = ExpectedText(ds[i])
             /\ error' = Null
             /\ NewToasts =
                  << [message |-> IF Len(ds) >= 1 THEN ExpectedText(ds[1])
                                  ELSE "Validation failed.",
                      type |-> "error"] >>
      ]_vars

\* Two details were shown in the order received, the first one in the toast.
TwoValidationErrorsShown ==
    /\ ~loading
    /\ validationErrors = <<"vehicleId: is required", "odometerKm: must be positive">>
    /\ error = Null
    /\ Len(toasts) >= 1
    /\ toasts[Len(toasts)] = [message |-> "vehicleId: is required", type |-> "error"]

(* C10: a rejection without a details property (a network-level failure, a
   body without details) sets error to the fixed generic message, leaves
   validationErrors empty, shows exactly one toast of kind error with that
   message and does not call onSuccess. *)
GenericFailedEffects ==
    [][\A r \in requests, err \in Rejections :
          (CreateCheckRejected(r, err)
             /\ ~("error" \in DOMAIN err /\ "details" \in DOMAIN err.error)) =>
             /\ error' = "Failed to submit check. Please try again."
             /\ validationErrors' = <<>>
             /\ NewToasts = << [message |-> "Failed to submit check. Please try again.",
                                type |-> "error"] >>
             /\ onSuccessCalls' = onSuccessCalls
      ]_vars

\* The generic banner is up after a failure and no success was ever signalled.
GenericBannerShown ==
    /\ ~loading
    /\ error = "Failed to submit check. Please try again."
    /\ validationErrors = <<>>
    /\ onSuccessCalls = 0
    /\ Len(toasts) >= 1
    /\ \A i \in 1..Len(toasts) :
          toasts[i] = [message |-> "Failed to submit check. Please try again.",
                       type |-> "error"]

(* C11: whenever the form is Submitting (loading true), error is null and
   validationErrors is empty, whatever the previous attempt left there; the
   handler clears both before it dispatches the request. *)
NoStaleErrorWhileSubmitting ==
    loading => (error = Null /\ validationErrors = <<>>)

\* A second attempt is in flight after a first one that ended with the
\* generic banner.
ResubmittedAfterGenericFailure ==
    /\ loading
    /\ submitted = 2
    /\ requests # {}
    /\ toasts = << [message |-> "Failed to submit check. Please try again.",
                    type |-> "error"] >>
    /\ error = Null

(* C12: setting the status of one of the five keys replaces the status of
   the entry with that key only: every other entry is kept, the order of
   the entries is kept, and selectedVehicle, odometerKm, note, loading,
   error, validationErrors and the vehicle list are left as they were. *)
SetStatusTouchesOneEntry ==
    [][\A key \in {"TYRES", "BRAKES", "LIGHTS", "OIL", "COOLANT"},
          status \in {"OK", "FAIL"} :
          HandleItemStatusChange(key, status) =>
             /\ Len(items') = Len(items)
             /\ \A i \in 1..Len(items) :
                   /\ items'[i].key = items[i].key
                   /\ items'[i].status =
                        IF items[i].key = key THEN status ELSE items[i].status
             /\ UNCHANGED <<selectedVehicle, odometerKm, note, loading, error,
                            validationErrors, vehicles>>
      ]_vars

\* LIGHTS alone was set to FAIL while a request was in flight.
OneStatusSetInFlight ==
    /\ loading
    /\ items[3].status = "FAIL"
    /\ \A i \in {1, 2, 4, 5} : items[i].status = "OK"
    /\ \E r \in requests : r.closure.items[3].status = "OK"

(* C13: every submission whose request is accepted shows exactly one toast
   of kind success and calls onSuccess exactly once; a submission whose
   request is rejected shows no success toast and does not call
   onSuccess. *)
CountOfType(seq, type) == Cardinality({ i \in 1..Len(seq) : seq[i].type = type })

SuccessSignalledOnce ==
    [][/\ \A r \in requests, thrower \in Throwers :
             CreateCheckResolved(r, thrower) =>
                /\ CountOfType(NewToasts, "success") = 1
                /\ onSuccessCalls' = onSuccessCalls + 1
       /\ \A r \in requests, err \in Rejections :
             CreateCheckRejected(r, err) =>
                /\ CountOfType(NewToasts, "success") = 0
                /\ onSuccessCalls' = onSuccessCalls
      ]_vars

(* C14: the vehicle load is best-effort and isolated: when it fails the
   vehicle list stays empty, no error content is set, no toast is shown and
   the form can still be submitted (a vehicle satisfying the required
   select can be chosen). *)
FailedLoadLeavesFormUsable ==
    vehiclesLoad = "rejected" =>
       /\ vehicles = <<>>
       /\ (submitted = 0 => error = Null /\ validationErrors = <<>> /\ toasts = <<>>)
       /\ \E v \in VehicleOptions : v # ""

\* The parts of C14 that do not depend on submitting: the list is written by
\* the resolution of the load only, and a failed load writes nothing.
VehicleListWrittenByLoadOnly ==
    [][/\ vehicles' # vehicles => (vehiclesLoad = "pending" /\ vehiclesLoad' = "fulfilled")
       /\ (vehiclesLoad = "pending" /\ vehiclesLoad' = "rejected") =>
             UNCHANGED <<vehicles, error, validationErrors, toasts, loading>>
      ]_vars

(* C15: no client-side validation gates the dispatch.  As first stated: a
   submit issued in Idle always sends a request, whatever the fields hold,
   an empty vehicle and an odometer text that is no number included. *)
SubmitInIdleAlwaysDispatches ==
    (~loading /\ submitted < MaxSubmits) => ENABLED Submit

(* C15, amended: handleSubmit makes no check of its own, so every submit
   event dispatches a request; but the form fires the submit event only
   when its controls satisfy their constraints (a vehicle chosen, an
   odometer text that is a whole number of at least 1), so in Idle a request
   is sent exactly in that case, and no request carries an empty vehicleId
   or a NaN odometerKm. *)
ControlsSatisfied ==
    /\ selectedVehicle # ""
    /\ odometerKm # <<>>
    /\ \A i \in 1..Len(odometerKm) :
          odometerKm[i] \in {"0", "1", "2", "3", "4", "5", "6", "7", "8", "9"}
    /\ \E i \in 1..Len(odometerKm) : odometerKm[i] # "0"

DispatchGatedByConstraints ==
    /\ (~loading /\ submitted < MaxSubmits) => (ENABLED Submit <=> ControlsSatisfied)
    /\ \A r \in requests :
          /\ r.payload.vehicleId # ""
          /\ ~r.payload.odometerKm.nan
          /\ r.payload.odometerKm.value >= 1

\* A vehicle is chosen and the odometer reads 0: parseFloat gives a number,
\* yet no request can be sent from here.
SubmitBlockedByMin ==
    /\ ~loading
    /\ submitted < MaxSubmits
    /\ selectedVehicle # ""
    /\ odometerKm = <<"0">>
    /\ requests = {}

(* C16: the payload of a request carries the selected vehicle value as it is
   and the checklist as it was when the submit was issued; an edit made
   while the request is in flight does not alter that payload: a request
   stays as dispatched until its settlement is handled. *)
PayloadIsSnapshot ==
    [][/\ \A r \in requests' \ requests :
             /\ r.payload.vehicleId = selectedVehicle
             /\ r.payload.items = items
       /\ \A r \in requests : r \in requests' \/ requests' = requests \ {r}
      ]_vars

\* The checklist and the vehicle were both changed after the dispatch.
FieldsEditedAfterDispatch ==
    \E r \in requests :
        /\ r.payload.items # items
        /\ r.payload.vehicleId # selectedVehicle

(* C18: the two error channels exclude each other: in no reachable state
   is error non-null while validationErrors is non-empty. *)
ErrorChannelsExclusive == ~(error # Null /\ validationErrors # <<>>)

\* A first attempt ended with a validation list, the second one with the
\* generic banner, which is now shown alone.
GenericBannerReplacedValidationList ==
    /\ ~loading
    /\ Len(toasts) = 2
    /\ toasts[1] = [message |-> "odometerKm: must be positive", type |-> "error"]
    /\ toasts[2] = [message |-> "Failed to submit check. Please try again.",
                    type |-> "error"]
    /\ error = "Failed to submit check. Please try again."
    /\ validationErrors = <<>>

(* C19: every rejected request leaves visible error content: whatever the
   shape of the rejection value, after the failure branch either error is
   non-null or validationErrors is non-empty, and exactly one toast of kind
   error was shown for that submission. *)
FailureLeavesVisibleError ==
    [][\A r \in requests, err \in Rejections :
          CreateCheckRejected(r, err) =>
             /\ (error' # Null \/ validationErrors' # <<>>)
             /\ CountOfType(NewToasts, "error") = 1
             /\ Len(NewToasts) = 1
      ]_vars

(* C20: error content appears for rejected requests only: when the request
   is accepted, error is null and validationErrors is empty after the
   handler has finished and no toast of kind error was shown, also when
   showToast or onSuccess throws in the success branch. *)
NoErrorContentAfterAcceptance ==
    [][\A r \in requests, thrower \in Throwers :
          CreateCheckResolved(r, thrower) =>
             /\ error' = Null
             /\ validationErrors' = <<>>
             /\ CountOfType(NewToasts, "error") = 0
      ]_vars

(* C17: the success/failure branch of a submission runs only in the step
   that handles the settlement of its request, never before; a request
   leaves the in-flight set only by that step, which shows its toast and
   ends loading, so no edit and no unmount made while it is in flight
   discards it; and every dispatched request is eventually handled. *)
BranchEffect ==
    \/ toasts' # toasts
    \/ onSuccessCalls' # onSuccessCalls
    \/ (loading /\ ~loading')
    \/ (error = Null /\ error' # Null)
    \/ (validationErrors = <<>> /\ validationErrors' # <<>>)

ResolutionAlwaysApplied ==
    /\ [][BranchEffect => SettleStep]_vars
    /\ [][\A r \in requests :
             \/ r \in requests'
             \/ /\ requests' = requests \ {r}
                /\ Len(toasts') > Len(toasts)
                /\ ~loading'
       ]_vars
    /\ (requests # {}) ~> (requests = {})

\* The form was edited and then unmounted while its request was in flight.
UnmountedWhileInFlight ==
    /\ ~mounted
    /\ \E r \in requests : edits > r.editsBefore

=============================================================================
